---- MODULE Spec2Model ----
(***************************************************************************)
(* Quiz submission progress tracking of the bjot backend: the QuizTaker    *)
(* and QuizSubmission documents, the admin handlers that create takers,    *)
(* assign and unassign quizzes and grade essays, the quiz-taker handlers   *)
(* that start a quiz, start a slot and set the slot order, the open-quiz   *)
(* submit of regular takers, and the transactional submit handler with its *)
(* retry loop.                                                             *)
(*                                                                         *)
(* The store holds one e-mail address, so there is at most one premium and *)
(* one regular taker (the handlers look takers up by email + accountType), *)
(* and one quiz QUIZ with four question sets at orders 1..4.               *)
(*                                                                         *)
(* Seven specifications run the handlers over the same variables:          *)
(*   Spec          two submit requests split into read, save/commit and    *)
(*                 backoff steps, interleaved with each other and with     *)
(*                 start-slot, with faults at each save and at the commit; *)
(*   SpecTaker     start-quiz, start-slot, set-question-order and submit   *)
(*                 on one assignment, each request running alone;          *)
(*   SpecFlow      submit with the admin unassigning and reassigning the   *)
(*                 quiz, each request running alone;                       *)
(*   SpecAccounts  the handlers that create premium and regular takers,    *)
(*                 assign quizzes, accept submissions and grade essays;    *)
(*   SpecEssay     submit of the essay slot and of a multiple-choice slot  *)
(*                 on one assignment, and the grading of essays;           *)
(*   SpecPair      two concurrent submit requests for two different slots  *)
(*                 of a submission that a first slot has opened;           *)
(*   SpecWager     the answer requests of one Scholar's-Wager session.     *)
(***************************************************************************)
EXTENDS Integers, Sequences, FiniteSets, TLC

\* ------------------------------------------------------------------ bounds
\* Documents the submissions collection may hold
MaxSubs == 2

\* Clients start and submit the slots 1 .. MaxSlot of the quiz
MaxSlot == 2

\* Questions of the question set a Scholar's-Wager session plays
MaxQuestions == 92

\* ------------------------------------------------------- program constants
MAX_RETRIES == 3

QUIZ == "quiz1"

Slots == 1 .. 4

AccountTypes == {"premium", "regular"}

\* The submit requests that may be in flight at the same time
Procs == {"r1", "r2"}

\* ----------------------------------------------------------------- strings
\* A JavaScript string is a sequence of one-character strings.
ToLowerChar(c) ==
  CASE c = "A" -> "a"
    [] c = "B" -> "b"
    [] c = "E" -> "e"
    [] c = "L" -> "l"
    [] c = "P" -> "p"
    [] c = "R" -> "r"
    [] c = "T" -> "t"
    [] c = "U" -> "u"
    [] OTHER -> c

ToLowerCase(s) == [i \in DOMAIN s |-> ToLowerChar(s[i])]

RECURSIVE TrimStart(_)
TrimStart(s) == IF s # <<>> /\ Head(s) = " " THEN TrimStart(Tail(s)) ELSE s

RECURSIVE TrimEnd(_)
TrimEnd(s) ==
  IF s # <<>> /\ s[Len(s)] = " " THEN TrimEnd(SubSeq(s, 1, Len(s) - 1)) ELSE s

Trim(s) == TrimEnd(TrimStart(s))

STR_A == <<"A">>
STR_A_Paris == <<"A", ".", " ", "P", "a", "r", "i", "s">>
STR_B_Lyon == <<"B", ".", " ", "L", "y", "o", "n">>
STR_true == <<"t", "r", "u", "e">>
STR_TRUE == <<"T", "R", "U", "E">>
STR_false == <<"f", "a", "l", "s", "e">>
STR_Paris_padded == <<" ", "P", "a", "r", "i", "s", " ">>
STR_paris == <<"p", "a", "r", "i", "s">>
STR_lyon == <<"l", "y", "o", "n">>
STR_essay == <<"e", "s", "s", "a", "y">>

\* -------------------------------------------------------------------- quiz
\* The quiz document: four question-set snapshots, one question each.
QuizQuestionSets ==
  << [order |-> 1, totalPoints |-> 2,
      questions |-> << [id |-> "q1", type |-> "multiple-choice",
                        options |-> <<STR_A_Paris, STR_B_Lyon>>,
                        correctAnswer |-> STR_A, points |-> 2] >>],
     [order |-> 2, totalPoints |-> 1,
      questions |-> << [id |-> "q2", type |-> "true-false",
                        options |-> <<>>,
                        correctAnswer |-> STR_true, points |-> 1] >>],
     [order |-> 3, totalPoints |-> 1,
      questions |-> << [id |-> "q3", type |-> "fill-in-the-blanks",
                        options |-> <<>>,
                        correctAnswer |-> STR_Paris_padded, points |-> 1] >>],
     [order |-> 4, totalPoints |-> 3,
      questions |-> << [id |-> "q4", type |-> "essay",
                        options |-> <<>>,
                        correctAnswer |-> <<>>, points |-> 3] >>] >>

RECURSIVE SumSeq(_)
SumSeq(s) == IF s = <<>> THEN 0 ELSE Head(s) + SumSeq(Tail(s))

QuizTotalPoints ==
  SumSeq([i \in DOMAIN QuizQuestionSets |-> QuizQuestionSets[i].totalPoints])

\* The answers a client sends for each slot.
BatchesFor(k) ==
  CASE k = 1 -> { << [questionId |-> "q1", answer |-> STR_A] >>,
                  << [questionId |-> "q1", answer |-> STR_A_Paris] >> }
    [] k = 2 -> { << [questionId |-> "q2", answer |-> STR_TRUE] >> }
    [] k = 3 -> { << [questionId |-> "q3", answer |-> STR_paris] >> }
    [] k = 4 -> { << [questionId |-> "q4", answer |-> STR_essay] >> }
    [] OTHER -> { <<>> }

\* --------------------------------------------------------------- documents
VARIABLES
  takers,   \* QuizTaker collection: accountType -> document (one e-mail)
  subs,     \* QuizSubmission collection: sequence of documents, _id = index
  proc,     \* the submit requests in flight, one record per request slot
  reply,    \* the outcome of the save/commit step that has just run
  game      \* the Scholar's-Wager GameSession of the user, <<>> before start

vars == <<takers, subs, proc, reply, game>>

QuizCombo == <<"s1", "s2", "s3", "s4">>
RepeatedCombo == <<"s1", "s1", "s2", "s3">>

\* Array.prototype.sort() on a sequence of strings / numbers, as a set-based
\* comparison of the sorted results: two sequences sort to the same array
\* exactly when they hold the same elements with the same multiplicities.
CountOf(s, x) == Cardinality({i \in DOMAIN s : s[i] = x})

Range(s) == {s[i] : i \in DOMAIN s}

SameSorted(a, b) ==
  /\ Len(a) = Len(b)
  /\ \A x \in Range(a) \cup Range(b) : CountOf(a, x) = CountOf(b, x)

NewTaker(accountType, accessCode, combo) ==
  [accountType |-> accountType,
   accessCode |-> accessCode,
   questionSetCombination |-> combo,
   quizzesTaken |-> <<>>,
   assignedQuizzes |-> <<>>]

\* questionSetCombination validator
ComboValid(arr) == Len(arr) = 1 \/ Len(arr) = 4

\* accessCode: required when accountType is premium
AccessCodeRequiredOk(doc) == doc.accountType = "premium" => doc.accessCode # ""

\* QuizTakerSchema.pre('save')
TakerPreSaveOk(doc) ==
  /\ ~(doc.accountType = "premium" /\ doc.accessCode = "")
  /\ ~(doc.accountType = "regular" /\ Len(doc.assignedQuizzes) > 0)

\* selectedQuestionSetOrder validator
OrderValid(arr) ==
  \/ Len(arr) = 0
  \/ Len(arr) = 4 /\ SameSorted(arr, <<1, 2, 3, 4>>)

TakerSaveOk_NoValidation(doc) == TRUE

\* document.save() of a QuizTaker: schema validation, then the pre-save hook
TakerSaveOk(doc) ==
  /\ ComboValid(doc.questionSetCombination)
  /\ AccessCodeRequiredOk(doc)
  /\ \A i \in DOMAIN doc.assignedQuizzes :
       OrderValid(doc.assignedQuizzes[i].selectedQuestionSetOrder)
  /\ TakerPreSaveOk(doc)

HasTaker(t) == t \in DOMAIN takers

PutTaker(t, doc) ==
  [x \in DOMAIN takers \cup {t} |-> IF x = t THEN doc ELSE takers[x]]

\* assignedQuizzes.find(aq => aq.quizId.toString() === quizId): index or 0
AssignedIdx(doc) ==
  IF \E i \in DOMAIN doc.assignedQuizzes : doc.assignedQuizzes[i].quizId = QUIZ
  THEN CHOOSE i \in DOMAIN doc.assignedQuizzes :
         /\ doc.assignedQuizzes[i].quizId = QUIZ
         /\ \A j \in 1 .. (i - 1) : doc.assignedQuizzes[j].quizId # QUIZ
  ELSE 0

NewAssignment ==
  [quizId |-> QUIZ,
   status |-> "pending",
   startedAt |-> 0,
   completedAt |-> 0,
   submissionId |-> 0,
   questionSetProgress |-> <<>>,
   selectedQuestionSetOrder |-> <<>>,
   currentQuestionSetOrder |-> 0]

NewProgress(k) ==
  [questionSetOrder |-> k, selectedOrder |-> 0, status |-> "not-started",
   completedAt |-> 0, score |-> 0, totalPoints |-> 0]

InitializeQuestionSetProgress_Always(aq) ==
  [aq EXCEPT !.questionSetProgress = [k \in 1 .. 4 |-> NewProgress(k)]]

\* QuizTakerSchema.methods.initializeQuestionSetProgress, on the assignment
InitializeQuestionSetProgress(aq) ==
  IF Len(aq.questionSetProgress) = 0
  THEN [aq EXCEPT !.questionSetProgress = [k \in 1 .. 4 |-> NewProgress(k)]]
  ELSE aq

\* questionSetProgress.find(qsp => qsp.questionSetOrder === order): index or 0
ProgressIdx(aq, order) ==
  IF \E i \in DOMAIN aq.questionSetProgress :
       aq.questionSetProgress[i].questionSetOrder = order
  THEN CHOOSE i \in DOMAIN aq.questionSetProgress :
         /\ aq.questionSetProgress[i].questionSetOrder = order
         /\ \A j \in 1 .. (i - 1) :
              aq.questionSetProgress[j].questionSetOrder # order
  ELSE 0

\* The result of a handler that writes the QuizTaker collection: the status
\* code of the response and the collection after the handler.
Out(code, msg, coll) == [code |-> code, msg |-> msg, takers |-> coll]

\* txn and session: the state of the request's transaction and of its
\* database session when the response is sent ("none": no response)
NoReply ==
  [code |-> 0, err |-> "none", attempt |-> 0, isNew |-> FALSE,
   subWrites |-> 0, takerWrites |-> 0, txn |-> "none", session |-> "none"]

\* ---------------------------------------------------------- admin handlers
\* POST /api/admin/quiztaker
AdminCreateQuizTakerResult(combo) ==
  IF Len(combo) # 4
  THEN Out(400, "combination", takers)
  ELSE IF HasTaker("premium")
  THEN Out(400, "exists", takers)
  ELSE LET doc == NewTaker("premium", "AC1", combo) IN
       IF TakerSaveOk(doc)
       THEN Out(201, "created", PutTaker("premium", doc))
       ELSE Out(500, "save", takers)

AdminCreateQuizTaker(combo) ==
  /\ takers' = AdminCreateQuizTakerResult(combo).takers
  /\ reply' = NoReply
  /\ UNCHANGED <<subs, proc, game>>

\* POST /api/cbt/start-session: finds or creates the premium taker of the
\* e-mail; the four ids must name four active question sets.
CbtStartSessionResult(ids) ==
  IF Len(ids) # 4
  THEN Out(400, "four", takers)
  ELSE IF Cardinality(Range(ids) \cap Range(QuizCombo)) # 4
  THEN Out(400, "invalid", takers)
  ELSE IF ~HasTaker("premium")
  THEN LET doc == NewTaker("premium", "", ids) IN
       IF TakerSaveOk(doc)
       THEN Out(200, "created", PutTaker("premium", doc))
       ELSE Out(500, "save", takers)
  ELSE LET cur == takers["premium"] IN
       IF ~SameSorted(cur.questionSetCombination, ids)
       THEN LET doc == [cur EXCEPT !.questionSetCombination = ids] IN
            IF TakerSaveOk(doc)
            THEN Out(200, "updated", PutTaker("premium", doc))
            ELSE Out(500, "save", takers)
       ELSE Out(200, "found", takers)

CbtStartSession(ids) ==
  /\ takers' = CbtStartSessionResult(ids).takers
  /\ reply' = NoReply
  /\ UNCHANGED <<subs, proc, game>>

\* POST /api/admin/assign-quiz with quizTakerIds = [t]
AssignQuizResult(t) ==
  IF ~HasTaker(t)
  THEN Out(200, "not found", takers)
  ELSE LET quizTaker == takers[t] IN
       IF quizTaker.accountType # "premium"
       THEN Out(200, "premium only", takers)
       ELSE IF ~SameSorted(QuizCombo, quizTaker.questionSetCombination)
       THEN Out(200, "combination", takers)
       ELSE IF AssignedIdx(quizTaker) # 0
       THEN Out(200, "already assigned", takers)
       ELSE LET doc == [quizTaker EXCEPT !.assignedQuizzes =
                                      Append(@, NewAssignment)] IN
            IF TakerSaveOk(doc)
            THEN Out(200, "assigned", PutTaker(t, doc))
            ELSE Out(200, "save", takers)

AssignQuiz(t) ==
  /\ takers' = AssignQuizResult(t).takers
  /\ reply' = NoReply
  /\ UNCHANGED <<subs, proc, game>>

UnassignQuizResult_NoCompletedCheck(t) ==
  IF ~HasTaker(t)
  THEN Out(404, "not found", takers)
  ELSE LET quizTaker == takers[t]
           i == AssignedIdx(quizTaker)
           NotThisQuiz(aq) == aq.quizId # QUIZ IN
       IF quizTaker.accountType # "premium"
       THEN Out(400, "premium only", takers)
       ELSE IF i = 0
       THEN Out(404, "not assigned", takers)
       ELSE LET doc == [quizTaker EXCEPT !.assignedQuizzes =
                                      SelectSeq(@, NotThisQuiz)] IN
            IF TakerSaveOk(doc)
            THEN Out(200, "unassigned", PutTaker(t, doc))
            ELSE Out(500, "save", takers)

\* DELETE /api/admin/unassign-quiz
UnassignQuizResult(t) ==
  IF ~HasTaker(t)
  THEN Out(404, "not found", takers)
  ELSE LET quizTaker == takers[t]
           i == AssignedIdx(quizTaker)
           NotThisQuiz(aq) == aq.quizId # QUIZ IN
       IF quizTaker.accountType # "premium"
       THEN Out(400, "premium only", takers)
       ELSE IF i = 0
       THEN Out(404, "not assigned", takers)
       ELSE IF quizTaker.assignedQuizzes[i].status = "completed"
       THEN Out(400, "completed", takers)
       ELSE LET doc == [quizTaker EXCEPT !.assignedQuizzes =
                                      SelectSeq(@, NotThisQuiz)] IN
            IF TakerSaveOk(doc)
            THEN Out(200, "unassigned", PutTaker(t, doc))
            ELSE Out(500, "save", takers)

UnassignQuiz(t) ==
  /\ takers' = UnassignQuizResult(t).takers
  /\ reply' = NoReply
  /\ UNCHANGED <<subs, proc, game>>

\* ----------------------------------------------------- quiz-taker handlers
\* The handlers run behind verifyQuizTaker, which admits any stored taker.

SetAssigned(doc, i, aq) == [doc EXCEPT !.assignedQuizzes[i] = aq]

StartQuizResult_NoCompletedCheck(t) ==
  LET quizTaker == takers[t]
      i == AssignedIdx(quizTaker) IN
  IF i = 0
  THEN Out(403, "not assigned", takers)
  ELSE LET assignedQuiz == quizTaker.assignedQuizzes[i] IN
       IF assignedQuiz.status = "in-progress"
       THEN Out(200, "already in progress", takers)
       ELSE LET aq == InitializeQuestionSetProgress(
                        [assignedQuiz EXCEPT !.status = "in-progress",
                                             !.startedAt = 1])
                doc == SetAssigned(quizTaker, i, aq) IN
            IF TakerSaveOk(doc)
            THEN Out(200, "started", PutTaker(t, doc))
            ELSE Out(500, "save", takers)

\* POST /api/quiztaker/quiz/:quizId/start
StartQuizResult(t) ==
  LET quizTaker == takers[t]
      i == AssignedIdx(quizTaker) IN
  IF i = 0
  THEN Out(403, "not assigned", takers)
  ELSE LET assignedQuiz == quizTaker.assignedQuizzes[i] IN
       IF assignedQuiz.status = "completed"
       THEN Out(400, "completed", takers)
       ELSE IF assignedQuiz.status = "in-progress"
       THEN Out(200, "already in progress", takers)
       ELSE LET aq == InitializeQuestionSetProgress(
                        [assignedQuiz EXCEPT !.status = "in-progress",
                                             !.startedAt = 1])
                doc == SetAssigned(quizTaker, i, aq) IN
            IF TakerSaveOk(doc)
            THEN Out(200, "started", PutTaker(t, doc))
            ELSE Out(500, "save", takers)

StartQuiz(t) ==
  /\ HasTaker(t)
  /\ takers' = StartQuizResult(t).takers
  /\ reply' = NoReply
  /\ UNCHANGED <<subs, proc, game>>

SlotCompleted_NoCheck(aq, order) == FALSE

\* qsProgress && qsProgress.status === 'completed'
SlotCompleted(aq, order) ==
  /\ ProgressIdx(aq, order) # 0
  /\ aq.questionSetProgress[ProgressIdx(aq, order)].status = "completed"

\* The slot numbers a client puts in the start-slot URL
SlotInputs == (1 .. MaxSlot) \cup {0, 5}

\* POST /api/quiztaker/quiz/:quizId/question-set/:questionSetOrder/start
StartSlotResult(t, questionSetOrder) ==
  IF questionSetOrder < 1 \/ questionSetOrder > 4
  THEN Out(400, "invalid order", takers)
  ELSE LET quizTaker == takers[t]
           i == AssignedIdx(quizTaker) IN
  IF i = 0
  THEN Out(403, "not assigned", takers)
  ELSE LET assignedQuiz == quizTaker.assignedQuizzes[i] IN
       IF assignedQuiz.status = "completed"
       THEN Out(400, "completed", takers)
       ELSE LET aq0 == InitializeQuestionSetProgress(assignedQuiz)
                j == ProgressIdx(aq0, questionSetOrder) IN
       IF j = 0
       THEN Out(404, "no set", takers)
       ELSE IF SlotCompleted(aq0, questionSetOrder)
       THEN Out(400, "set completed", takers)
       ELSE LET aq1 == IF aq0.status = "pending"
                       THEN [aq0 EXCEPT !.status = "in-progress",
                                        !.startedAt = 1]
                       ELSE aq0
                aq2 == IF aq1.questionSetProgress[j].status = "not-started"
                       THEN [aq1 EXCEPT
                               !.questionSetProgress[j].status = "in-progress"]
                       ELSE aq1
                aq3 == [aq2 EXCEPT
                          !.currentQuestionSetOrder = questionSetOrder]
                doc == SetAssigned(quizTaker, i, aq3) IN
            IF TakerSaveOk(doc)
            THEN Out(200, "started", PutTaker(t, doc))
            ELSE Out(500, "save", takers)

StartSlot(t, questionSetOrder) ==
  /\ HasTaker(t)
  /\ takers' = StartSlotResult(t, questionSetOrder).takers
  /\ reply' = NoReply
  /\ UNCHANGED <<subs, proc, game>>

\* questionSetOrder.indexOf(x) + 1
IndexOfPlus1(arr, x) ==
  IF \E n \in DOMAIN arr : arr[n] = x
  THEN CHOOSE n \in DOMAIN arr :
         arr[n] = x /\ \A m \in 1 .. (n - 1) : arr[m] # x
  ELSE 0

AnyCompleted_Never(aq) == FALSE

\* assignedQuiz.questionSetProgress.some(qsp => qsp.status === 'completed')
AnyCompleted(aq) ==
  \E j \in DOMAIN aq.questionSetProgress :
     aq.questionSetProgress[j].status = "completed"

\* The orders a client sends to set-question-order.
OrderInputs == { <<2, 1, 4, 3>>, <<1, 1, 2, 3>>, <<1, 2, 3>> }

\* POST /api/quiztaker/quiz/:quizId/set-question-order
SetQuestionOrderResult(t, questionSetOrder) ==
  IF Len(questionSetOrder) # 4
  THEN Out(400, "four numbers", takers)
  ELSE IF ~SameSorted(questionSetOrder, <<1, 2, 3, 4>>)
  THEN Out(400, "permutation", takers)
  ELSE LET quizTaker == takers[t]
           i == AssignedIdx(quizTaker) IN
  IF i = 0
  THEN Out(403, "not assigned", takers)
  ELSE LET assignedQuiz == quizTaker.assignedQuizzes[i] IN
       IF assignedQuiz.status = "completed"
       THEN Out(400, "completed", takers)
       ELSE IF assignedQuiz.status = "in-progress" /\ AnyCompleted(assignedQuiz)
       THEN Out(400, "after submitting", takers)
       ELSE LET aq0 == InitializeQuestionSetProgress(
                         [assignedQuiz EXCEPT
                            !.selectedQuestionSetOrder = questionSetOrder])
                aq1 == [aq0 EXCEPT
                          !.questionSetProgress =
                             [j \in DOMAIN aq0.questionSetProgress |->
                                [aq0.questionSetProgress[j] EXCEPT
                                   !.selectedOrder =
                                      IndexOfPlus1(questionSetOrder,
                                        aq0.questionSetProgress[j]
                                           .questionSetOrder)]],
                          !.currentQuestionSetOrder = questionSetOrder[1]]
                doc == SetAssigned(quizTaker, i, aq1) IN
            IF TakerSaveOk(doc)
            THEN Out(200, "saved", PutTaker(t, doc))
            ELSE Out(500, "save", takers)

SetQuestionOrder(t, questionSetOrder) ==
  /\ HasTaker(t)
  /\ takers' = SetQuestionOrderResult(t, questionSetOrder).takers
  /\ reply' = NoReply
  /\ UNCHANGED <<subs, proc, game>>

\* ------------------------------------------------------------- submissions
\* Math.round((score / totalPoints) * 100) for non-negative operands
RoundPercent(score, totalPoints) ==
  (200 * score + totalPoints) \div (2 * totalPoints)

\* QuizSubmissionSchema.pre('save'): percentage of the submission and of each
\* question-set submission
SubPreSave(doc) ==
  [doc EXCEPT
     !.percentage = IF doc.totalPoints > 0
                    THEN RoundPercent(doc.score, doc.totalPoints)
                    ELSE doc.percentage,
     !.questionSetSubmissions =
        [n \in DOMAIN doc.questionSetSubmissions |->
           LET qss == doc.questionSetSubmissions[n] IN
           IF qss.totalPoints > 0
           THEN [qss EXCEPT !.percentage =
                               RoundPercent(qss.score, qss.totalPoints)]
           ELSE qss]]

\* QuizSubmissionSchema.pre('save') duplicate check: the value the hook
\* returns.  The hook returns the Error object instead of throwing it, and a
\* synchronous hook's return value is not a rejection, so save() continues.
SubDuplicateHookReturn(doc) ==
  IF \E m, n \in DOMAIN doc.questionSetSubmissions :
        /\ m # n
        /\ doc.questionSetSubmissions[m].questionSetOrder =
           doc.questionSetSubmissions[n].questionSetOrder
  THEN "Error: duplicate"
  ELSE IF Len(doc.questionSetSubmissions) > 4
  THEN "Error: more than 4"
  ELSE "undefined"

\* Schema validation of a QuizSubmission on save (min/max and validators)
SubSaveOk(doc) ==
  /\ \A n \in DOMAIN doc.answers : doc.answers[n].questionSetOrder \in 1 .. 4
  /\ \A n \in DOMAIN doc.questionSetSubmissions :
       /\ doc.questionSetSubmissions[n].questionSetOrder \in 1 .. 4
       /\ doc.questionSetSubmissions[n].orderAnswered \in 1 .. 4
  /\ OrderValid(doc.questionSetOrderUsed)
  /\ SubDuplicateHookReturn(doc) \in {"Error: duplicate", "Error: more than 4",
                                      "undefined"}

\* QuizSubmission.findOne({quizId, quizTakerId, status: 'in-progress'}): the
\* first matching _id, or 0
FindInProgress(coll, t) ==
  IF \E n \in DOMAIN coll :
        coll[n].quizTakerId = t /\ coll[n].status = "in-progress"
  THEN CHOOSE n \in DOMAIN coll :
         /\ coll[n].quizTakerId = t /\ coll[n].status = "in-progress"
         /\ \A m \in 1 .. (n - 1) :
              ~(coll[m].quizTakerId = t /\ coll[m].status = "in-progress")
  ELSE 0

\* quiz.questionSets.find(qs => qs.order === questionSetOrder): index or 0
QuestionSetIdx(order) ==
  IF \E n \in DOMAIN QuizQuestionSets : QuizQuestionSets[n].order = order
  THEN CHOOSE n \in DOMAIN QuizQuestionSets : QuizQuestionSets[n].order = order
  ELSE 0

\* questionSet.questions.find(q => q._id.toString() === questionId)
QuestionIdx(questionSet, questionId) ==
  IF \E n \in DOMAIN questionSet.questions :
        questionSet.questions[n].id = questionId
  THEN CHOOSE n \in DOMAIN questionSet.questions :
         questionSet.questions[n].id = questionId
  ELSE 0

GradeOne_EssayCompared(question, questionSetOrder, submitted) ==
  LET base == [questionId |-> question.id,
               questionSetOrder |-> questionSetOrder,
               questionType |-> question.type,
               answer |-> submitted,
               pointsPossible |-> question.points,
               pointsAwarded |-> 0,
               isCorrect |-> "null"]
      right == [base EXCEPT !.isCorrect = "true",
                            !.pointsAwarded = question.points]
      wrong == [base EXCEPT !.isCorrect = "false"] IN
  CASE question.type = "multiple-choice" ->
         IF Trim(submitted) = Trim(question.correctAnswer) THEN right ELSE wrong
    [] question.type = "true-false" ->
         IF ToLowerCase(submitted) = ToLowerCase(question.correctAnswer)
         THEN right ELSE wrong
    [] question.type = "fill-in-the-blanks" ->
         IF ToLowerCase(Trim(submitted)) =
            ToLowerCase(Trim(question.correctAnswer))
         THEN right ELSE wrong
    [] OTHER ->
         IF ToLowerCase(Trim(submitted)) =
            ToLowerCase(Trim(question.correctAnswer))
         THEN right ELSE wrong

\* The switch on question.type of the transactional submit handler
GradeOne(question, questionSetOrder, submitted) ==
  LET base == [questionId |-> question.id,
               questionSetOrder |-> questionSetOrder,
               questionType |-> question.type,
               answer |-> submitted,
               pointsPossible |-> question.points,
               pointsAwarded |-> 0,
               isCorrect |-> "null"]
      right == [base EXCEPT !.isCorrect = "true",
                            !.pointsAwarded = question.points]
      wrong == [base EXCEPT !.isCorrect = "false"] IN
  CASE question.type = "multiple-choice" ->
         IF Trim(submitted) = Trim(question.correctAnswer) THEN right ELSE wrong
    [] question.type = "true-false" ->
         IF ToLowerCase(submitted) = ToLowerCase(question.correctAnswer)
         THEN right ELSE wrong
    [] question.type = "fill-in-the-blanks" ->
         IF ToLowerCase(Trim(submitted)) =
            ToLowerCase(Trim(question.correctAnswer))
         THEN right ELSE wrong
    [] OTHER -> base

\* answers.forEach(...): the graded answers, unknown question ids skipped
RECURSIVE GradeAnswers(_, _, _)
GradeAnswers(questionSet, questionSetOrder, answers) ==
  IF answers = <<>>
  THEN <<>>
  ELSE LET a == Head(answers)
           n == QuestionIdx(questionSet, a.questionId)
           rest == GradeAnswers(questionSet, questionSetOrder, Tail(answers)) IN
       IF n = 0
       THEN rest
       ELSE <<GradeOne(questionSet.questions[n], questionSetOrder, a.answer)>>
            \o rest

PointsOf(answers) == SumSeq([n \in DOMAIN answers |-> answers[n].pointsAwarded])

ReplaceSlotAnswers_DropOthers(old, questionSetOrder, graded) == graded

ReplaceSlotAnswers_Append(old, questionSetOrder, graded) == old \o graded

\* submission.answers.filter(other slots) followed by push(...gradedAnswers)
ReplaceSlotAnswers(old, questionSetOrder, graded) ==
  LET OtherSlot(ans) == ans.questionSetOrder # questionSetOrder IN
  SelectSeq(old, OtherSlot) \o graded

\* questionSetSubmissions.find(qss => qss.questionSetOrder === order)
QssIdx(doc, order) ==
  IF \E n \in DOMAIN doc.questionSetSubmissions :
        doc.questionSetSubmissions[n].questionSetOrder = order
  THEN CHOOSE n \in DOMAIN doc.questionSetSubmissions :
         /\ doc.questionSetSubmissions[n].questionSetOrder = order
         /\ \A m \in 1 .. (n - 1) :
              doc.questionSetSubmissions[m].questionSetOrder # order
  ELSE 0

UpsertQss_KeepScore(doc, rec) ==
  LET n == QssIdx(doc, rec.questionSetOrder) IN
  IF n # 0
  THEN [doc EXCEPT !.questionSetSubmissions[n].totalPoints = rec.totalPoints,
                   !.questionSetSubmissions[n].orderAnswered = rec.orderAnswered]
  ELSE [doc EXCEPT !.questionSetSubmissions = Append(@, rec)]

UpsertQss_AlwaysPush(doc, rec) ==
  [doc EXCEPT !.questionSetSubmissions = Append(@, rec)]

\* Update the slot's question-set submission record, or add it
UpsertQss(doc, rec) ==
  LET n == QssIdx(doc, rec.questionSetOrder) IN
  IF n # 0
  THEN [doc EXCEPT !.questionSetSubmissions[n].score = rec.score,
                   !.questionSetSubmissions[n].totalPoints = rec.totalPoints,
                   !.questionSetSubmissions[n].orderAnswered = rec.orderAnswered]
  ELSE [doc EXCEPT !.questionSetSubmissions = Append(@, rec)]

NewSubmission(t, orderUsed) ==
  [quizTakerId |-> t,
   status |-> "in-progress",
   answers |-> <<>>,
   questionSetSubmissions |-> <<>>,
   score |-> 0,
   totalPoints |-> QuizTotalPoints,
   percentage |-> 0,
   questionSetOrderUsed |-> orderUsed]

\* --------------------------------------------- transactional submit handler
\* POST /api/quiztaker/quiz/:quizId/submit.  A request body:
\*   [questionSetOrder, answers, isArray, isFinalSubmission]
AllBatches == UNION {BatchesFor(k) : k \in Slots}

ValidBodies ==
  { body \in [questionSetOrder : 1 .. MaxSlot, answers : AllBatches,
              isArray : {TRUE}, isFinalSubmission : BOOLEAN] :
      body.answers \in BatchesFor(body.questionSetOrder) }

InvalidBodies ==
  { [questionSetOrder |-> 0, answers |-> <<>>, isArray |-> TRUE,
     isFinalSubmission |-> FALSE],
    [questionSetOrder |-> 5, answers |-> <<>>, isArray |-> TRUE,
     isFinalSubmission |-> FALSE],
    [questionSetOrder |-> 1, answers |-> <<>>, isArray |-> FALSE,
     isFinalSubmission |-> FALSE] }

\* The bodies each request slot sends: the second one repeats one request
RequestBodies(p) ==
  IF p = "r1"
  THEN ValidBodies \cup InvalidBodies
  ELSE { [questionSetOrder |-> 1,
          answers |-> << [questionId |-> "q1", answer |-> STR_A] >>,
          isArray |-> TRUE, isFinalSubmission |-> FALSE] }

Reject(code, msg, quizTaker, t) ==
  [code |-> code, msg |-> msg, taker |-> quizTaker,
   sub |-> NewSubmission(t, <<>>), subId |-> 0, isNew |-> FALSE,
   questionSetScore |-> 0]

CompletedCount(aq) ==
  Cardinality({j \in DOMAIN aq.questionSetProgress :
                 aq.questionSetProgress[j].status = "completed"})

HasEssay(answers) ==
  \E n \in DOMAIN answers : answers[n].questionType = "essay"

FinalBranch_NoEntry(quizTaker, i, aq, sub, subId) ==
  LET sub1 == [sub EXCEPT !.status = IF HasEssay(sub.answers)
                                     THEN "pending-manual-grading"
                                     ELSE "auto-graded"]
      aq1 == [aq EXCEPT !.status = "completed",
                        !.completedAt = 1,
                        !.submissionId = subId] IN
  [taker |-> SetAssigned(quizTaker, i, aq1), sub |-> sub1]

\* The final-submission branch: closes the submission and the assignment and
\* appends the quizzesTaken entry.
FinalBranch(quizTaker, i, aq, sub, subId) ==
  LET sub1 == [sub EXCEPT !.status = IF HasEssay(sub.answers)
                                     THEN "pending-manual-grading"
                                     ELSE "auto-graded"]
      aq1 == [aq EXCEPT !.status = "completed",
                        !.completedAt = 1,
                        !.submissionId = subId]
      entry == [quizId |-> QUIZ,
                score |-> sub1.score,
                totalPoints |-> sub1.totalPoints,
                percentage |-> sub1.percentage]
      taker1 == [SetAssigned(quizTaker, i, aq1) EXCEPT
                   !.quizzesTaken = Append(@, entry)] IN
  [taker |-> taker1, sub |-> sub1]

\* One pass of the try block on the documents read in the transaction:
\* quizTaker is the taker document, coll the submissions collection, as the
\* transaction's snapshot shows them, newId the _id of a document created by
\* new QuizSubmission().  code = 0 means the pass reached the two save()
\* calls with the documents taker and sub.
Attempt(t, body, quizTaker, coll, newId) ==
  LET questionSetOrder == body.questionSetOrder IN
  IF questionSetOrder = 0 \/ questionSetOrder < 1 \/ questionSetOrder > 4
  THEN Reject(400, "invalid order", quizTaker, t)
  ELSE IF ~body.isArray
  THEN Reject(400, "answers array", quizTaker, t)
  ELSE LET i == AssignedIdx(quizTaker) IN
  IF i = 0
  THEN Reject(403, "not assigned", quizTaker, t)
  ELSE IF quizTaker.assignedQuizzes[i].status = "completed"
  THEN Reject(400, "quiz completed", quizTaker, t)
  ELSE IF QuestionSetIdx(questionSetOrder) = 0
  THEN Reject(404, "no set", quizTaker, t)
  ELSE LET questionSet == QuizQuestionSets[QuestionSetIdx(questionSetOrder)]
           aq0 == InitializeQuestionSetProgress(quizTaker.assignedQuizzes[i])
           j == ProgressIdx(aq0, questionSetOrder) IN
  IF SlotCompleted(aq0, questionSetOrder)
  THEN Reject(400, "set completed", quizTaker, t)
  ELSE LET aq1 == IF aq0.status = "pending"
                  THEN [aq0 EXCEPT !.status = "in-progress", !.startedAt = 1]
                  ELSE aq0
           found == FindInProgress(coll, t)
           isNewSubmission == found = 0
           subId == IF isNewSubmission THEN newId ELSE found
           sub0 == IF isNewSubmission
                   THEN NewSubmission(t, aq1.selectedQuestionSetOrder)
                   ELSE coll[found]
           gradedAnswers == GradeAnswers(questionSet, questionSetOrder,
                                         body.answers)
           questionSetScore == PointsOf(gradedAnswers)
           sub1 == [sub0 EXCEPT !.answers = ReplaceSlotAnswers(
                                   @, questionSetOrder, gradedAnswers)]
           orderAnswered == CompletedCount(aq1) + 1
           sub2 == UpsertQss(sub1,
                     [questionSetOrder |-> questionSetOrder,
                      score |-> questionSetScore,
                      totalPoints |-> questionSet.totalPoints,
                      percentage |-> 0,
                      orderAnswered |-> orderAnswered])
           sub3 == [sub2 EXCEPT !.score = PointsOf(sub2.answers)]
           aq2 == IF j # 0
                  THEN [aq1 EXCEPT
                          !.questionSetProgress[j].status = "completed",
                          !.questionSetProgress[j].completedAt = 1,
                          !.questionSetProgress[j].score = questionSetScore,
                          !.questionSetProgress[j].totalPoints =
                             questionSet.totalPoints]
                  ELSE aq1
           fin == IF body.isFinalSubmission
                  THEN FinalBranch(quizTaker, i, aq2, sub3, subId)
                  ELSE [taker |-> SetAssigned(quizTaker, i, aq2), sub |-> sub3]
       IN
  [code |-> 0, msg |-> "save", taker |-> fin.taker, sub |-> fin.sub,
   subId |-> subId, isNew |-> isNewSubmission,
   questionSetScore |-> questionSetScore]

IdleProc ==
  [pc |-> "idle", taker |-> "premium",
   body |-> [questionSetOrder |-> 0, answers |-> <<>>, isArray |-> TRUE,
             isFinalSubmission |-> FALSE],
   attempt |-> 0, snapT |-> <<>>, snapS |-> <<>>,
   subWrites |-> 0, takerWrites |-> 0]

RejectedReply_NoAbort(code) ==
  [NoReply EXCEPT !.code = code, !.txn = "open", !.session = "open"]

\* An early return of the try block:
\*   await session.abortTransaction(); return res.status(code).json(...)
\* The session started before the loop is not ended on this path.
RejectedReply(code) ==
  [NoReply EXCEPT !.code = code, !.txn = "aborted", !.session = "open"]

\* The transaction after the saves and the commit: commitTransaction() when
\* nothing failed, abortTransaction() first thing in the catch block
TxnAfterPass(f) == IF f = "none" THEN "committed" ELSE "aborted"

\* The session when the response of a pass is sent: endSession() is called
\* before the 409 and the 500 response of the catch block and nowhere else
\* (the call after the loop is not reached once a response was returned)
SessionAfterPass(code) == IF code \in {409, 500} THEN "ended" ELSE "open"

\* The pass of one attempt up to the save() calls: either a 4xx response
\* (transaction aborted, request over) or the transaction stays open on the
\* documents it read.
RunAttempt(p, t, body, base) ==
  LET r == Attempt(t, body, takers[t], subs, Len(subs) + 1) IN
  IF r.code # 0
  THEN /\ proc' = [proc EXCEPT ![p] = IdleProc]
       /\ reply' = [RejectedReply(r.code) EXCEPT
                      !.attempt = base.attempt,
                      !.subWrites = base.subWrites,
                      !.takerWrites = base.takerWrites]
  ELSE /\ proc' = [proc EXCEPT ![p] =
                     [base EXCEPT !.pc = "tx", !.taker = t, !.body = body,
                                  !.snapT = <<takers[t]>>, !.snapS = subs]]
       /\ reply' = NoReply

\* A request arrives: startSession, attempt = 0, first pass of the loop
SubmitStart(p, t, body) ==
  /\ proc[p].pc = "idle"
  /\ HasTaker(t)
  /\ FindInProgress(subs, t) # 0 \/ Len(subs) < MaxSubs
  /\ RunAttempt(p, t, body, IdleProc)
  /\ UNCHANGED <<takers, subs, game>>

\* After the backoff delay: the next pass of the while loop
SubmitRetry(p) ==
  /\ proc[p].pc = "backoff"
  /\ HasTaker(proc[p].taker)
  /\ FindInProgress(subs, proc[p].taker) # 0 \/ Len(subs) < MaxSubs
  /\ RunAttempt(p, proc[p].taker, proc[p].body, proc[p])
  /\ UNCHANGED <<takers, subs, game>>

FailPoints == {"none", "subSave", "takerSave", "commit"}

ErrorKinds == {"none", "VersionError", "Other"}

\* The documents written inside the transaction when it stops at f
WrittenInTxn(f) ==
  CASE f = "subSave" -> {}
    [] f = "takerSave" -> {"sub"}
    [] OTHER -> {"sub", "taker"}

Persisted_NoRollback(f) == WrittenInTxn(f)

\* commitTransaction() persists both writes; abortTransaction() in the catch
\* block discards whatever the transaction wrote
Persisted(f) == IF f = "none" THEN {"sub", "taker"} ELSE {}

IsVersionError_RetryAll(e) == e # "none"

\* error.name === 'VersionError'
IsVersionError(e) == e = "VersionError"

RetriesExhausted_OffByOne(attempt) == attempt > MAX_RETRIES

\* attempt >= MAX_RETRIES
RetriesExhausted(attempt) == attempt >= MAX_RETRIES

\* The save of the submission meets a conflicting committed write: a second
\* in-progress document of the pair on insert (partial unique index), a
\* changed document on update
SubConflict(coll, snap, r, t) ==
  IF r.isNew
  THEN FindInProgress(coll, t) # 0
  ELSE coll[r.subId] # snap[r.subId]

TxnConflictFree(pr, r) == TRUE

\* submission.save({session}); quizTaker.save({session}); commitTransaction():
\* the transaction can commit only if no document it writes was changed by a
\* write committed after its snapshot
TxnCanCommit(pr, r) ==
  /\ ~SubConflict(subs, pr.snapS, r, pr.taker)
  /\ HasTaker(pr.taker)
  /\ takers[pr.taker] = pr.snapT[1]

\* submission.save(): the pre-save hooks run, then the document is inserted
\* or replaced
SaveSubmission(r) ==
  IF r.isNew
  THEN Append(subs, SubPreSave(r.sub))
  ELSE [subs EXCEPT ![r.subId] = SubPreSave(r.sub)]

\* The two save() calls and the commit, with the catch block.  f is the
\* place where the pass fails ("none": it commits), e the error thrown there.
SubmitSave(p, f, e) ==
  /\ proc[p].pc = "tx"
  /\ UNCHANGED game
  /\ LET pr == proc[p]
         t == pr.taker
         r == Attempt(t, pr.body, pr.snapT[1], pr.snapS, Len(subs) + 1)
         subConflict == SubConflict(subs, pr.snapS, r, t)
         takerConflict == takers[t] # pr.snapT[1]
         written == Persisted(f)
         attempt1 == pr.attempt + 1
         subWrites == pr.subWrites + (IF "sub" \in written THEN 1 ELSE 0)
         takerWrites == pr.takerWrites + (IF "taker" \in written THEN 1 ELSE 0)
         retry == f # "none" /\ IsVersionError(e) /\ ~RetriesExhausted(attempt1)
     IN
     /\ (f = "none") <=> (e = "none")
     /\ f = "none" => /\ TxnCanCommit(pr, r)
                      /\ SubSaveOk(r.sub)
                      /\ TakerSaveOk(r.taker)
     /\ (subConflict \/ ~SubSaveOk(r.sub)) => f \in {"none", "subSave"}
     /\ (takerConflict \/ ~TakerSaveOk(r.taker)) =>
           f \in {"none", "subSave", "takerSave"}
     /\ e = "VersionError" =>
           \/ f = "subSave" /\ subConflict /\ ~r.isNew
           \/ f = "takerSave" /\ takerConflict
     /\ subs' = IF "sub" \in written THEN SaveSubmission(r) ELSE subs
     /\ takers' = IF "taker" \in written THEN PutTaker(t, r.taker) ELSE takers
     /\ proc' = [proc EXCEPT ![p] =
                   IF retry
                   THEN [pr EXCEPT !.pc = "backoff", !.attempt = attempt1,
                                   !.snapT = <<>>, !.snapS = <<>>,
                                   !.subWrites = subWrites,
                                   !.takerWrites = takerWrites]
                   ELSE IdleProc]
     /\ LET code == IF f = "none" THEN 200
                     ELSE IF IsVersionError(e)
                     THEN IF RetriesExhausted(attempt1) THEN 409 ELSE 0
                     ELSE 500 IN
        reply' = [code |-> code,
                  err |-> e,
                  attempt |-> IF f # "none" /\ IsVersionError(e)
                              THEN attempt1 ELSE pr.attempt,
                  isNew |-> r.isNew,
                  subWrites |-> subWrites,
                  takerWrites |-> takerWrites,
                  txn |-> TxnAfterPass(f),
                  session |-> SessionAfterPass(code)]

\* A request that runs from its first read to its response with no other
\* handler in between and no fault: one pass of the loop, then either a 4xx
\* response or the two saves and the commit.
SubmitRequest(p, t, body) ==
  /\ proc[p].pc = "idle"
  /\ HasTaker(t)
  /\ FindInProgress(subs, t) # 0 \/ Len(subs) < MaxSubs
  /\ LET r == Attempt(t, body, takers[t], subs, Len(subs) + 1) IN
     IF r.code = 0 /\ SubSaveOk(r.sub) /\ TakerSaveOk(r.taker)
     THEN /\ subs' = IF "sub" \in Persisted("none")
                     THEN SaveSubmission(r) ELSE subs
          /\ takers' = IF "taker" \in Persisted("none")
                       THEN PutTaker(t, r.taker) ELSE takers
          /\ reply' = [NoReply EXCEPT !.code = 200, !.isNew = r.isNew,
                                      !.subWrites = 1, !.takerWrites = 1,
                                      !.txn = TxnAfterPass("none"),
                                      !.session = SessionAfterPass(200)]
     ELSE /\ reply' = IF r.code = 0
                      THEN [NoReply EXCEPT !.code = 500,
                                           !.txn = TxnAfterPass("subSave"),
                                           !.session = SessionAfterPass(500)]
                      ELSE RejectedReply(r.code)
          /\ UNCHANGED <<takers, subs>>
  /\ UNCHANGED <<proc, game>>

\* ------------------------------------------------------- grading by admin
GradeInputs ==
  { << [questionId |-> "q4", pointsAwarded |-> 2] >>,
    << [questionId |-> "q4", pointsAwarded |-> 0] >>,
    << [questionId |-> "q1", pointsAwarded |-> 0],
       [questionId |-> "q4", pointsAwarded |-> 1] >> }

\* submission.answers.find(a => a.questionId.toString() === questionId)
AnswerIdx(answers, questionId) ==
  IF \E n \in DOMAIN answers : answers[n].questionId = questionId
  THEN CHOOSE n \in DOMAIN answers :
         /\ answers[n].questionId = questionId
         /\ \A m \in 1 .. (n - 1) : answers[m].questionId # questionId
  ELSE 0

GradableAnswer_AnyType(answers, n) == n # 0

\* if (answer && answer.questionType === "essay")
GradableAnswer(answers, n) == n # 0 /\ answers[n].questionType = "essay"

\* grades.forEach(...): set the points of the named essay answers
RECURSIVE ApplyGrades(_, _)
ApplyGrades(answers, grades) ==
  IF grades = <<>>
  THEN answers
  ELSE LET g == Head(grades)
           n == AnswerIdx(answers, g.questionId)
           next == IF GradableAnswer(answers, n)
                   THEN [answers EXCEPT
                           ![n].pointsAwarded = g.pointsAwarded,
                           ![n].isCorrect = IF g.pointsAwarded > 0
                                            THEN "true" ELSE "false"]
                   ELSE answers IN
       ApplyGrades(next, Tail(grades))

\* PUT /api/admin/grade-essay/:submissionId
\* PUT /api/admin/grade-essay/:submissionId
GradeEssayResult(id, grades) ==
  IF id \notin DOMAIN subs
  THEN [code |-> 404, msg |-> "not found", subs |-> subs]
  ELSE LET answers == ApplyGrades(subs[id].answers, grades)
           doc == [subs[id] EXCEPT !.answers = answers,
                                   !.score = PointsOf(answers),
                                   !.status = "graded"] IN
       IF SubSaveOk(doc)
       THEN [code |-> 200, msg |-> "graded",
             subs |-> [subs EXCEPT ![id] = SubPreSave(doc)]]
       ELSE [code |-> 500, msg |-> "save", subs |-> subs]

GradeEssay(id, grades) ==
  /\ subs' = GradeEssayResult(id, grades).subs
  /\ reply' = NoReply
  /\ UNCHANGED <<takers, proc, game>>

\* ------------------------------------------------- open quiz (regular taker)
\* All questions of the quiz, graded as unanswered (answers defaults to [])
RECURSIVE UnansweredOf(_, _)
UnansweredOf(questionSet, questions) ==
  IF questions = <<>>
  THEN <<>>
  ELSE LET q == Head(questions) IN
       << [questionId |-> q.id,
           questionSetOrder |-> questionSet.order,
           questionType |-> q.type,
           answer |-> <<>>,
           pointsPossible |-> q.points,
           pointsAwarded |-> 0,
           isCorrect |-> IF q.type = "essay" THEN "null" ELSE "false"] >>
       \o UnansweredOf(questionSet, Tail(questions))

RECURSIVE UnansweredAll(_)
UnansweredAll(sets) ==
  IF sets = <<>>
  THEN <<>>
  ELSE UnansweredOf(Head(sets), Head(sets).questions)
       \o UnansweredAll(Tail(sets))

\* POST /api/public/quiz/:quizId/submit with no answers: finds or creates the
\* regular taker of the e-mail, refuses a second submission (multipleAttempts
\* is off), stores a finished submission and the quizzesTaken entry.
PublicSubmitResult ==
  LET created == ~HasTaker("regular")
      quizTaker == IF created
                   THEN NewTaker("regular", "", QuizCombo)
                   ELSE takers["regular"]
      gradedAnswers == UnansweredAll(QuizQuestionSets)
      submission ==
        [NewSubmission("regular", <<1, 2, 3, 4>>) EXCEPT
           !.answers = gradedAnswers,
           !.score = 0,
           !.status = IF HasEssay(gradedAnswers)
                      THEN "pending-manual-grading" ELSE "auto-graded",
           !.questionSetSubmissions =
              [n \in DOMAIN QuizQuestionSets |->
                 [questionSetOrder |-> QuizQuestionSets[n].order,
                  score |-> 0,
                  totalPoints |-> QuizQuestionSets[n].totalPoints,
                  percentage |-> 0,
                  orderAnswered |-> n]]]
      taken == [quizTaker EXCEPT !.quizzesTaken =
                  Append(@, [quizId |-> QUIZ, score |-> 0,
                             totalPoints |-> 0, percentage |-> 0])]
      Res(code, msg, tk, sb) ==
        [code |-> code, msg |-> msg, takers |-> tk, subs |-> sb] IN
  IF created /\ ~TakerSaveOk(quizTaker)
  THEN Res(500, "save", takers, subs)
  ELSE IF \E n \in DOMAIN subs : subs[n].quizTakerId = "regular"
  THEN Res(400, "already submitted", PutTaker("regular", quizTaker), subs)
  ELSE IF ~SubSaveOk(submission)
  THEN Res(500, "save", PutTaker("regular", quizTaker), subs)
  ELSE IF TakerSaveOk(taken)
  THEN Res(200, "submitted", PutTaker("regular", taken),
           Append(subs, SubPreSave(submission)))
  ELSE Res(500, "save", PutTaker("regular", quizTaker),
           Append(subs, SubPreSave(submission)))

PublicSubmit ==
  /\ Len(PublicSubmitResult.subs) <= MaxSubs
  /\ takers' = PublicSubmitResult.takers
  /\ subs' = PublicSubmitResult.subs
  /\ reply' = NoReply
  /\ UNCHANGED <<proc, game>>

\* ---------------------------------------------------------- Scholar's Wager
\* Scores are kept in half points, so that the 2.5 points won on a wager of
\* 5 are an integer: Half(100) is the score 100.
Half(points) == 2 * points

\* The ids of the questions of the session's question set; the correct
\* answer of each is "right"
WagerQuestions == 1 .. MaxQuestions

\* new GameSession({userId, questionSetId, subject}) with the schema's
\* defaults.  Of history only the last entry is kept, correctAnswers is left
\* out: the handlers write them and never read them.
NewGameSession ==
  [currentScore |-> Half(100),
   goalScore |-> Half(1000),
   questionsAnswered |-> 0,
   usedQuestionIds |-> {},
   status |-> "active",
   history |-> <<>>]

\* POST /api/scholars-wager/start
StartGameResult ==
  IF game # <<>> /\ game.status = "active"
  THEN [code |-> 400, game |-> game]
  ELSE [code |-> 201, game |-> NewGameSession]

StartGame ==
  /\ game' = StartGameResult.game
  /\ reply' = [NoReply EXCEPT !.code = StartGameResult.code]
  /\ UNCHANGED <<takers, subs, proc>>

\* The bodies of the answer requests: questionId 0 and wager 0 stand for a
\* missing field, selectedAnswer "undefined" for a missing answer.  The
\* client asks the questions in the order of their ids, repeats the last one
\* it answered, or names a question the set does not hold.
AnswerBodies ==
  LET n == IF game = <<>> THEN 0 ELSE game.questionsAnswered IN
  [questionId : {0, n, n + 1, MaxQuestions + 1},
   selectedAnswer : {"right", "wrong", "undefined"},
   wager : {0, 5, 7, 10}]

EnoughPoints_Always(g, wager) == TRUE

\* the negation of: gameSession.currentScore < wager
EnoughPoints(g, wager) == g.currentScore >= Half(wager)

\* pointsChange of an answer, in half points
PointsChange(isCorrect, wager) ==
  IF isCorrect
  THEN (IF wager = 10 THEN Half(10) ELSE 5)
  ELSE 0 - Half(wager)

\* POST /api/scholars-wager/session/:sessionId/answer
AnswerResult(body) ==
  IF body.questionId = 0 \/ body.selectedAnswer = "undefined" \/ body.wager = 0
  THEN [code |-> 400, game |-> game]
  ELSE IF body.wager \notin {5, 10}
  THEN [code |-> 400, game |-> game]
  ELSE IF game = <<>>
  THEN [code |-> 404, game |-> game]
  ELSE IF game.status # "active"
  THEN [code |-> 400, game |-> game]
  ELSE IF ~EnoughPoints(game, body.wager)
  THEN [code |-> 400, game |-> game]
  ELSE IF body.questionId \notin WagerQuestions
  THEN [code |-> 404, game |-> game]
  ELSE IF body.questionId \in game.usedQuestionIds
  THEN [code |-> 400, game |-> game]
  ELSE LET isCorrect == body.selectedAnswer = "right"
           pointsChange == PointsChange(isCorrect, body.wager)
           currentScore == game.currentScore + pointsChange
           status == IF currentScore >= game.goalScore
                     THEN "won"
                     ELSE IF currentScore < Half(5)
                     THEN "lost"
                     ELSE game.status IN
       [code |-> 200,
        game |-> [game EXCEPT
                    !.currentScore = currentScore,
                    !.questionsAnswered = @ + 1,
                    !.usedQuestionIds = @ \cup {body.questionId},
                    !.history = << [wager |-> body.wager,
                                    isCorrect |-> isCorrect,
                                    pointsChange |-> pointsChange] >>,
                    !.status = status]]

Answer(body) ==
  /\ game' = AnswerResult(body).game
  /\ reply' = [NoReply EXCEPT !.code = AnswerResult(body).code]
  /\ UNCHANGED <<takers, subs, proc>>

\* ----------------------------------------------------------- specification
Init ==
  /\ takers = <<>>
  /\ subs = <<>>
  /\ proc = [p \in Procs |-> IdleProc]
  /\ reply = NoReply
  /\ game = <<>>

\* Transactions: the premium taker's submit requests, two at a time, that
\* interleave with each other and with the start of a slot, with a fault
\* possible at each save and at the commit.
Next ==
  \/ \E combo \in {QuizCombo} : AdminCreateQuizTaker(combo)
  \/ AssignQuiz("premium")
  \/ \E k \in {0, 1, 2} : StartSlot("premium", k)
  \/ \E p \in Procs : \E body \in RequestBodies(p) :
       SubmitStart(p, "premium", body)
  \/ \E p \in Procs : SubmitRetry(p)
  \/ \E p \in Procs, f \in FailPoints, e \in ErrorKinds : SubmitSave(p, f, e)

Spec == Init /\ [][Next]_vars

\* Flow: the premium taker's quiz from assignment to completion, each
\* request running alone, with the admin taking the assignment away and
\* giving it again.
NextFlow ==
  \/ \E combo \in {QuizCombo} : AdminCreateQuizTaker(combo)
  \/ AssignQuiz("premium")
  \/ UnassignQuiz("premium")
  \/ \E body \in ValidBodies \cup InvalidBodies :
       SubmitRequest("r1", "premium", body)

SpecFlow == Init /\ [][NextFlow]_vars

\* Taker: the four operations a quiz taker has on one assignment, each
\* request running alone.
NextTaker ==
  \/ \E combo \in {QuizCombo} : AdminCreateQuizTaker(combo)
  \/ AssignQuiz("premium")
  \/ StartQuiz("premium")
  \/ \E k \in SlotInputs : StartSlot("premium", k)
  \/ \E o \in OrderInputs : SetQuestionOrder("premium", o)
  \/ \E body \in ValidBodies \cup InvalidBodies :
       SubmitRequest("r1", "premium", body)

SpecTaker == Init /\ [][NextTaker]_vars

\* Accounts: the handlers that create takers of both account types, assign
\* quizzes to them and accept their submissions, and the grading of essays.
NextAccounts ==
  \/ \E combo \in {QuizCombo, RepeatedCombo} : AdminCreateQuizTaker(combo)
  \/ \E ids \in {QuizCombo} : CbtStartSession(ids)
  \/ PublicSubmit
  \/ \E t \in AccountTypes : AssignQuiz(t)
  \/ \E t \in AccountTypes : UnassignQuiz(t)
  \/ \E t \in AccountTypes : StartQuiz(t)
  \/ \E t \in AccountTypes, final \in BOOLEAN :
       SubmitRequest("r1", t,
          [questionSetOrder |-> 1,
           answers |-> << [questionId |-> "q1", answer |-> STR_A] >>,
           isArray |-> TRUE, isFinalSubmission |-> final])
  \/ \E id \in 1 .. MaxSubs, grades \in GradeInputs : GradeEssay(id, grades)

SpecAccounts == Init /\ [][NextAccounts]_vars

\* The bodies of the essay specification: the essay slot with several texts
\* and the multiple-choice slot, each as a partial and as a final submission
EssayBodies ==
  { [questionSetOrder |-> k, answers |-> << [questionId |-> q, answer |-> a] >>,
     isArray |-> TRUE, isFinalSubmission |-> final] :
      <<k, q, a>> \in { <<4, "q4", STR_essay>>, <<4, "q4", <<>> >>,
                        <<4, "q4", STR_A>>, <<1, "q1", STR_A>> },
      final \in BOOLEAN }

\* Essays: the premium taker submits the essay slot and the multiple-choice
\* slot, the admin grades submissions.
NextEssay ==
  \/ \E combo \in {QuizCombo} : AdminCreateQuizTaker(combo)
  \/ AssignQuiz("premium")
  \/ \E body \in EssayBodies : SubmitRequest("r1", "premium", body)
  \/ \E id \in 1 .. MaxSubs, grades \in GradeInputs : GradeEssay(id, grades)

SpecEssay == Init /\ [][NextEssay]_vars

\* The body of the submit that opens the submission, and the bodies of the two
\* requests that follow it concurrently, one slot each
OpeningBody ==
  [questionSetOrder |-> 3,
   answers |-> << [questionId |-> "q3", answer |-> STR_paris] >>,
   isArray |-> TRUE, isFinalSubmission |-> FALSE]

PairBody(p) ==
  IF p = "r1"
  THEN [questionSetOrder |-> 2,
        answers |-> << [questionId |-> "q2", answer |-> STR_TRUE] >>,
        isArray |-> TRUE, isFinalSubmission |-> FALSE]
  ELSE [questionSetOrder |-> 1,
        answers |-> << [questionId |-> "q1", answer |-> STR_A] >>,
        isArray |-> TRUE, isFinalSubmission |-> FALSE]

\* Pair: after a first slot was submitted, two requests of the taker for two
\* other slots run at the same time, with a fault possible at each save and
\* at the commit.
NextPair ==
  \/ \E combo \in {QuizCombo} : AdminCreateQuizTaker(combo)
  \/ AssignQuiz("premium")
  \/ SubmitRequest("r1", "premium", OpeningBody)
  \/ \E p \in Procs : SubmitStart(p, "premium", PairBody(p))
  \/ \E p \in Procs : SubmitRetry(p)
  \/ \E p \in Procs, f \in FailPoints, e \in ErrorKinds : SubmitSave(p, f, e)

SpecPair == Init /\ [][NextPair]_vars

\* Wager: one user starts Scholar's-Wager sessions and answers questions
NextWager ==
  \/ StartGame
  \/ \E body \in AnswerBodies : Answer(body)

SpecWager == Init /\ [][NextWager]_vars

\* ------------------------------------------------------------------ claims
\* The assignment of the quiz in a QuizTaker collection
AssignedIn(coll, t) == t \in DOMAIN coll /\ AssignedIdx(coll[t]) # 0

AqIn(coll, t) == coll[t].assignedQuizzes[AssignedIdx(coll[t])]

\* The slot's QuestionSetProgress status is 'completed'
DoneSlot(coll, t, k) ==
  /\ AssignedIn(coll, t)
  /\ \E j \in DOMAIN AqIn(coll, t).questionSetProgress :
        /\ AqIn(coll, t).questionSetProgress[j].questionSetOrder = k
        /\ AqIn(coll, t).questionSetProgress[j].status = "completed"

\* The answers a submission stores for a slot, as the client sent them
StoredAnswers(doc, k) ==
  LET OfSlot(ans) == ans.questionSetOrder = k
      sel == SelectSeq(doc.answers, OfSlot) IN
  [n \in DOMAIN sel |->
     [questionId |-> sel[n].questionId, answer |-> sel[n].answer]]

\* The submissions of a taker that hold a record of the slot
RecordsOfSlot(coll, t, k) ==
  {n \in DOMAIN coll : coll[n].quizTakerId = t /\ QssIdx(coll[n], k) # 0}

\* C1: once a slot's progress status is 'completed', in any sequence of
\* start-quiz, start-slot, set-question-order and submit operations, every
\* start of that slot and every submit for it is answered 400 and writes
\* nothing, and the slot's status is 'completed' in every later state.
C1_CompletionMonotonic ==
  /\ [](\A k \in Slots :
          DoneSlot(takers, "premium", k) =>
            /\ StartSlotResult("premium", k).code = 400
            /\ StartSlotResult("premium", k).takers = takers
            /\ \A body \in ValidBodies :
                 body.questionSetOrder = k =>
                   Attempt("premium", body, takers["premium"], subs,
                           Len(subs) + 1).code = 400)
  /\ [][\A k \in Slots :
          DoneSlot(takers, "premium", k) => DoneSlot(takers', "premium", k)]_vars

\* A slot is completed by an accepted submit while the quiz is in progress
C1_Witness ==
  /\ reply.code = 200
  /\ DoneSlot(takers, "premium", 1)
  /\ ~DoneSlot(takers, "premium", 2)
  /\ AqIn(takers, "premium").status = "in-progress"

\* C2: in every reachable state where the assignment's status is
\* 'completed', the progress status of all four slots is 'completed'.
C2_CompletedMeansAllSlotsDone ==
  \A t \in DOMAIN takers :
     (AssignedIn(takers, t) /\ AqIn(takers, t).status = "completed") =>
        \A k \in Slots : DoneSlot(takers, t, k)

\* C3: the questionSetSubmissions list of every stored submission has no two
\* entries with the same questionSetOrder, at most 4 entries, and every
\* questionSetOrder in 1..4.
C3_SlotUniqueness ==
  \A n \in DOMAIN subs :
     LET qss == subs[n].questionSetSubmissions IN
     /\ \A a, b \in DOMAIN qss :
          a # b => qss[a].questionSetOrder # qss[b].questionSetOrder
     /\ Len(qss) <= 4
     /\ \A a \in DOMAIN qss : qss[a].questionSetOrder \in 1 .. 4

\* A slot's record was updated in place by a second submission of the slot:
\* two records of one submission were both the first slot answered
C3_Witness ==
  \E n \in DOMAIN subs :
     \E a, b \in DOMAIN subs[n].questionSetSubmissions :
        /\ a # b
        /\ subs[n].questionSetSubmissions[a].orderAnswered =
           subs[n].questionSetSubmissions[b].orderAnswered

\* C4: a submit that is accepted for a slot whose answers, as stored in the
\* in-progress submission by an earlier submit, equal the answers it sends
\* leaves the slot's stored score, the slot's stored answers and the
\* submission's overall score as that earlier submit left them.
C4_IdempotentResubmission ==
  [][reply'.code = 200 /\ FindInProgress(subs, "premium") # 0 =>
       \A body \in ValidBodies :
          LET found == FindInProgress(subs, "premium")
              k == body.questionSetOrder IN
          ( /\ QssIdx(subs[found], k) # 0
            /\ StoredAnswers(subs[found], k) = body.answers
            /\ SubmitRequest("r1", "premium", body) )
          => /\ Len(subs') = Len(subs)
             /\ subs'[found].score = subs[found].score
             /\ StoredAnswers(subs'[found], k) = StoredAnswers(subs[found], k)
             /\ Len(subs'[found].questionSetSubmissions) =
                Len(subs[found].questionSetSubmissions)
             /\ subs'[found].questionSetSubmissions[QssIdx(subs[found], k)].score =
                subs[found].questionSetSubmissions[QssIdx(subs[found], k)].score
    ]_vars

\* The in-progress submission stores a scored answer for slot 1 and a submit
\* of the same answers for slot 1 is accepted
C4_Witness ==
  LET found == FindInProgress(subs, "premium")
      body == [questionSetOrder |-> 1,
               answers |-> << [questionId |-> "q1", answer |-> STR_A] >>,
               isArray |-> TRUE, isFinalSubmission |-> FALSE] IN
  /\ found # 0
  /\ QssIdx(subs[found], 1) # 0
  /\ subs[found].score > 0
  /\ StoredAnswers(subs[found], 1) = body.answers
  /\ HasTaker("premium")
  /\ Attempt("premium", body, takers["premium"], subs, Len(subs) + 1).code = 0

\* C5: when the first two passes of a submit failed with a VersionError and
\* the third commits, the request is answered 200 and, over the whole
\* request, exactly one write of the submission and one write of the taker
\* are persisted.
C5_ConflictRetry ==
  [][\A p \in Procs :
       ( /\ proc[p].pc = "tx"
         /\ proc[p].attempt = 2
         /\ proc'[p] # proc[p]
         /\ reply'.err = "none" )
       => /\ reply'.code = 200
          /\ reply'.subWrites = 1
          /\ reply'.takerWrites = 1
          /\ proc'[p].pc = "idle"
          /\ takers'[proc[p].taker] # takers[proc[p].taker]]_vars

\* A request committed on its third pass
C5_Witness == reply.code = 200 /\ reply.attempt = 2

\* C6: a submit makes at most 3 passes; when the third pass also fails with a
\* VersionError the request is answered 409, ends, and has changed neither
\* the submission nor the taker document.
C6_RetryCeiling ==
  /\ [](/\ \A p \in Procs : proc[p].attempt <= 2
        /\ reply.attempt <= 3
        /\ reply.code = 409 =>
             reply.attempt = 3 /\ reply.subWrites = 0 /\ reply.takerWrites = 0)
  /\ [][\A p \in Procs :
          ( /\ proc[p].pc = "tx"
            /\ proc[p].attempt = 2
            /\ proc'[p] # proc[p]
            /\ reply'.err = "VersionError" )
          => /\ reply'.code = 409
             /\ proc'[p].pc = "idle"
             /\ UNCHANGED <<takers, subs>>]_vars

\* A request was answered 409
C6_Witness == reply.code = 409 /\ reply.attempt = 3

\* C7: a pass of a submit that fails with an error other than a VersionError
\* ends the request with a 500: no further pass is made and neither document
\* is changed.
C7_OtherErrorNotRetried ==
  [][\A p \in Procs :
       (proc[p].pc = "tx" /\ proc'[p] # proc[p] /\ reply'.err = "Other")
       => /\ reply'.code = 500
          /\ proc'[p].pc = "idle"
          /\ UNCHANGED <<takers, subs>>]_vars

\* A request was answered 500 after a taker conflict caused an earlier retry
C7_Witness == reply.code = 500 /\ reply.err = "Other" /\ reply.attempt = 1

\* C8: each pass of a submit persists the submission and the taker together
\* or neither: a failed pass leaves both collections unchanged, a request
\* has written both documents equally often, and a slot's progress is
\* 'completed' exactly when a submission of the taker holds the slot's record.
C8_AtomicCommit ==
  /\ [](/\ reply.subWrites = reply.takerWrites
        /\ \A p \in Procs : proc[p].subWrites = proc[p].takerWrites
        /\ \A k \in Slots :
             DoneSlot(takers, "premium", k) <=>
                RecordsOfSlot(subs, "premium", k) # {})
  /\ [][\A p \in Procs :
          (proc[p].pc = "tx" /\ proc'[p] # proc[p] /\ reply'.err # "none")
          => UNCHANGED <<takers, subs>>]_vars

\* A first submission failed and left no submission and no completed slot
C8_Witness ==
  /\ reply.err # "none"
  /\ reply.isNew
  /\ subs = <<>>
  /\ AssignedIn(takers, "premium")
  /\ \A k \in Slots : ~DoneSlot(takers, "premium", k)

\* C9: no two stored submissions of one taker for the quiz have the status
\* 'in-progress'.
C9_OneInProgress ==
  \A t \in AccountTypes :
     Cardinality({n \in DOMAIN subs : /\ subs[n].quizTakerId = t
                                      /\ subs[n].status = "in-progress"}) <= 1

\* Of two concurrent first submissions one is stored and the other has just
\* failed
C9_Witness ==
  /\ reply.isNew
  /\ reply.err # "none"
  /\ FindInProgress(subs, "premium") # 0

\* C10: save() rejects a regular taker with an assigned quiz and a premium
\* taker without access code, and no stored taker is either of them.
C10_PremiumRegular ==
  /\ \A t \in DOMAIN takers :
       /\ takers[t].accountType = t
       /\ t = "premium" => takers[t].accessCode # ""
       /\ t = "regular" => Len(takers[t].assignedQuizzes) = 0
  /\ ~TakerSaveOk(NewTaker("premium", "", QuizCombo))
  /\ ~TakerSaveOk([NewTaker("regular", "", QuizCombo) EXCEPT
                     !.assignedQuizzes = <<NewAssignment>>])
  /\ \A t \in DOMAIN takers :
       /\ ~TakerSaveOk([takers[t] EXCEPT !.accountType = "premium",
                                         !.accessCode = ""])
       /\ ~TakerSaveOk([takers[t] EXCEPT !.accountType = "regular",
                                         !.assignedQuizzes =
                                            Append(@, NewAssignment)])
       /\ AssignQuizResult("regular").takers = takers

\* Both kinds of taker are stored, the premium one with the quiz assigned,
\* the regular one with a quiz taken
C10_Witness ==
  /\ HasTaker("regular")
  /\ Len(takers["regular"].quizzesTaken) > 0
  /\ AssignedIn(takers, "premium")

\* The position of an assignment status in pending -> in-progress -> completed
StatusRank(status) ==
  CASE status = "pending" -> 0
    [] status = "in-progress" -> 1
    [] status = "completed" -> 2
    [] OTHER -> -1

\* C11: the status of the assignment is 'pending', 'in-progress' or
\* 'completed', and no step of start-quiz, start-slot, set-question-order or
\* submit moves it to an earlier one of the three: never from in-progress to
\* pending, never from completed to another status.
C11_StatusMonotone ==
  /\ [](AssignedIn(takers, "premium") =>
          StatusRank(AqIn(takers, "premium").status) >= 0)
  /\ [][AssignedIn(takers, "premium") =>
          /\ AssignedIn(takers', "premium")
          /\ StatusRank(AqIn(takers', "premium").status) >=
             StatusRank(AqIn(takers, "premium").status)]_vars

\* The assignment is completed and a later submit has been refused
C11_Witness ==
  /\ AssignedIn(takers, "premium")
  /\ AqIn(takers, "premium").status = "completed"
  /\ AqIn(takers, "premium").startedAt = 1
  /\ reply.code = 400

\* C12: whenever a slot of the assignment has the progress status
\* 'completed', set-question-order is answered 400 for every order sent and
\* writes nothing, so selectedQuestionSetOrder, the slots' selectedOrder and
\* currentQuestionSetOrder stay as they are; this holds for every status the
\* assignment itself has.
C12_NoReorderAfterCompletion ==
  (AssignedIn(takers, "premium") /\
     \E k \in Slots : DoneSlot(takers, "premium", k)) =>
    \A o \in OrderInputs :
       /\ SetQuestionOrderResult("premium", o).code = 400
       /\ SetQuestionOrderResult("premium", o).takers = takers

\* A custom order was saved, then a slot was completed while the quiz is
\* still in progress
C12_Witness ==
  /\ AssignedIn(takers, "premium")
  /\ AqIn(takers, "premium").status = "in-progress"
  /\ AqIn(takers, "premium").selectedQuestionSetOrder = <<2, 1, 4, 3>>
  /\ DoneSlot(takers, "premium", 1)
  /\ ~DoneSlot(takers, "premium", 2)

\* String.prototype.startsWith
StartsWith(s, prefix) ==
  Len(s) >= Len(prefix) /\ SubSeq(s, 1, Len(prefix)) = prefix

\* The option whose label prefix is the stored correct-answer letter:
\* options.find(opt => opt.trim().startsWith(correctAnswer + ".")), the empty
\* string standing for undefined
CorrectOption(question) ==
  LET Labelled(n) ==
        StartsWith(Trim(question.options[n]), question.correctAnswer \o <<".">>)
  IN
  IF \E n \in DOMAIN question.options : Labelled(n)
  THEN question.options[CHOOSE n \in DOMAIN question.options :
                          /\ Labelled(n)
                          /\ \A m \in 1 .. (n - 1) : ~Labelled(m)]
  ELSE <<>>

\* The question of the quiz a stored answer belongs to
QuestionOf(ans) ==
  LET questionSet == QuizQuestionSets[QuestionSetIdx(ans.questionSetOrder)] IN
  questionSet.questions[QuestionIdx(questionSet, ans.questionId)]

\* C13: every multiple-choice answer a submit has stored is correct with the
\* question's full points exactly when the submitted text is identical to
\* the option whose label prefix is the stored correct-answer letter, and is
\* incorrect with 0 points otherwise.
C13_MultipleChoiceByOptionText ==
  \A n \in DOMAIN subs :
     \A a \in DOMAIN subs[n].answers :
        LET ans == subs[n].answers[a] IN
        ans.questionType = "multiple-choice" =>
          IF ans.answer = CorrectOption(QuestionOf(ans))
          THEN ans.isCorrect = "true" /\ ans.pointsAwarded = QuestionOf(ans).points
          ELSE ans.isCorrect = "false" /\ ans.pointsAwarded = 0

\* The answers of a submission to questions of the other types
AutoGradedAnswers(doc) ==
  LET NotEssay(ans) == ans.questionType # "essay" IN
  SelectSeq(doc.answers, NotEssay)

\* C14: in every submission the admin has not graded, every answer to an
\* essay question has isCorrect = null and pointsAwarded = 0 whatever its
\* text, the record of a slot that holds only essay answers has score 0, and
\* the overall score is the sum over the answers of the other types.
C14_EssayUngraded ==
  \A n \in DOMAIN subs :
     subs[n].status # "graded" =>
       /\ \A a \in DOMAIN subs[n].answers :
            subs[n].answers[a].questionType = "essay" =>
              /\ subs[n].answers[a].isCorrect = "null"
              /\ subs[n].answers[a].pointsAwarded = 0
       /\ QssIdx(subs[n], 4) # 0 =>
            subs[n].questionSetSubmissions[QssIdx(subs[n], 4)].score = 0
       /\ subs[n].score = PointsOf(AutoGradedAnswers(subs[n]))

\* A submission that was not graded holds an essay answer with an empty text
\* next to a scored multiple-choice answer
C14_Witness ==
  \E n \in DOMAIN subs :
     /\ subs[n].status # "graded"
     /\ subs[n].score > 0
     /\ \E a \in DOMAIN subs[n].answers :
          /\ subs[n].answers[a].questionType = "essay"
          /\ subs[n].answers[a].answer = <<>>

\* C15: a submit that arrives while the assignment's status is 'pending' is
\* answered with a 4xx status and leaves the taker and the submission
\* documents unchanged.
C15_PendingSubmitRejected ==
  [][( /\ AssignedIn(takers, "premium")
       /\ AqIn(takers, "premium").status = "pending"
       /\ reply'.code # 0 )
     => /\ reply'.code \in 400 .. 499
        /\ UNCHANGED <<takers, subs>>]_vars

\* C16: while the assignment is 'completed', assign-quiz reports the quiz as
\* already assigned and unassign-quiz answers 400, both without writing, and
\* no step removes the assignment, changes its status or changes its
\* submission link, which names a stored submission of the taker.
C16_CompletedAssignmentStays ==
  /\ []((AssignedIn(takers, "premium") /\
          AqIn(takers, "premium").status = "completed") =>
          /\ AssignQuizResult("premium").msg = "already assigned"
          /\ AssignQuizResult("premium").takers = takers
          /\ UnassignQuizResult("premium").code = 400
          /\ UnassignQuizResult("premium").takers = takers
          /\ AqIn(takers, "premium").submissionId \in DOMAIN subs
          /\ subs[AqIn(takers, "premium").submissionId].quizTakerId = "premium")
  /\ [][(AssignedIn(takers, "premium") /\
          AqIn(takers, "premium").status = "completed") =>
          /\ AssignedIn(takers', "premium")
          /\ AqIn(takers', "premium").status = "completed"
          /\ AqIn(takers', "premium").submissionId =
             AqIn(takers, "premium").submissionId
          /\ Len(takers'["premium"].assignedQuizzes) =
             Len(takers["premium"].assignedQuizzes)]_vars

\* The assignment was completed by a final submit that followed an unassign
\* and a new assignment, and an admin call has been made since
C16_Witness ==
  /\ AssignedIn(takers, "premium")
  /\ AqIn(takers, "premium").status = "completed"
  /\ AqIn(takers, "premium").submissionId = 1
  /\ Len(subs[1].questionSetSubmissions) = 2
  /\ ~DoneSlot(takers, "premium", 2)
  /\ reply = NoReply

\* C17: every stored QuizTaker whose questionSetCombination has four entries
\* holds four pairwise-distinct references (a save of a four-element
\* combination with a repeated reference is rejected, so none is stored).
C17_FourDistinctSets ==
  \A t \in DOMAIN takers :
     Len(takers[t].questionSetCombination) = 4 =>
       Cardinality(Range(takers[t].questionSetCombination)) = 4

\* The graded answers a submission stores for a slot
AnswersOfSlot(doc, k) ==
  LET OfSlot(ans) == ans.questionSetOrder = k IN SelectSeq(doc.answers, OfSlot)

\* C18: in every submission written by committed slot submits, the score of
\* each QuestionSetSubmission record is the sum of pointsAwarded over the
\* submission's answers of the record's slot, and the overall score is the
\* sum of the scores of the records.
C18_ScoreAggregation ==
  \A n \in DOMAIN subs :
     LET qss == subs[n].questionSetSubmissions IN
     /\ \A a \in DOMAIN qss :
          qss[a].score = PointsOf(AnswersOfSlot(subs[n], qss[a].questionSetOrder))
     /\ subs[n].score = SumSeq([a \in DOMAIN qss |-> qss[a].score])

\* A submit has just committed and a submission holds the records of two
\* slots, slot 1 without points and slot 2 scored
C18_Witness ==
  /\ reply.code = 200
  /\ \E n \in DOMAIN subs :
       /\ Len(subs[n].questionSetSubmissions) = 2
       /\ subs[n].questionSetSubmissions[1].questionSetOrder = 1
       /\ subs[n].questionSetSubmissions[1].score = 0
       /\ subs[n].questionSetSubmissions[1].orderAnswered = 1
       /\ subs[n].score = 1

\* The record a submission holds for a slot, <<>> when it holds none
QssOf(doc, k) ==
  IF QssIdx(doc, k) = 0
  THEN <<>>
  ELSE <<doc.questionSetSubmissions[QssIdx(doc, k)]>>

\* The progress record of a slot in an assignment; before the first
\* initializeQuestionSetProgress the list is empty and the slot counts as the
\* not-started record the initialisation creates
ProgressOf(aq, k) ==
  IF ProgressIdx(aq, k) = 0
  THEN NewProgress(k)
  ELSE aq.questionSetProgress[ProgressIdx(aq, k)]

\* C19: a committed submit for slot k leaves in the submission, as the
\* answers of slot k, exactly the batch it graded, and leaves the answers
\* and the QuestionSetSubmission record of every other slot, the progress
\* record of every other slot and every other submission as they were.
C19_ReplaceNotAppend ==
  [][reply'.code = 200 =>
       \A body \in ValidBodies :
          SubmitRequest("r1", "premium", body) =>
            LET k == body.questionSetOrder
                found == FindInProgress(subs, "premium")
                id == IF found = 0 THEN Len(subs) + 1 ELSE found
                old == IF found = 0 THEN NewSubmission("premium", <<>>)
                       ELSE subs[found]
            IN
            /\ Len(subs') = IF found = 0 THEN Len(subs) + 1 ELSE Len(subs)
            /\ StoredAnswers(subs'[id], k) = body.answers
            /\ AnswersOfSlot(subs'[id], k) =
                 GradeAnswers(QuizQuestionSets[QuestionSetIdx(k)], k,
                              body.answers)
            /\ \A k2 \in Slots \ {k} :
                 /\ AnswersOfSlot(subs'[id], k2) = AnswersOfSlot(old, k2)
                 /\ QssOf(subs'[id], k2) = QssOf(old, k2)
                 /\ ProgressOf(AqIn(takers', "premium"), k2) =
                    ProgressOf(AqIn(takers, "premium"), k2)
            /\ \A m \in DOMAIN subs : m # id => subs'[m] = subs[m]
    ]_vars

\* The submit just committed was the second one for slot 1: the submission
\* holds slot 2 as the second slot answered under an earlier assignment,
\* and under the present assignment only slot 1 is completed
C19_Witness ==
  /\ reply.code = 200
  /\ DoneSlot(takers, "premium", 1)
  /\ ~DoneSlot(takers, "premium", 2)
  /\ \E n \in DOMAIN subs :
       /\ QssOf(subs[n], 1) # <<>>
       /\ QssOf(subs[n], 2) # <<>>
       /\ QssOf(subs[n], 2)[1].orderAnswered = 2
       /\ Len(AnswersOfSlot(subs[n], 1)) = 1

\* C20: a submission leaves 'in-progress' only by a committed final submit,
\* which makes it 'pending-manual-grading' when it holds an essay answer and
\* 'auto-graded' otherwise; it becomes 'graded' only by the admin's grading
\* of a submission that was finalized; and it never returns to 'in-progress'.
C20_SubmissionLifecycle ==
  [][\A n \in DOMAIN subs :
       /\ (subs[n].status = "in-progress" /\ subs'[n].status # "in-progress")
            => /\ reply'.code = 200
               /\ subs'[n].status = IF HasEssay(subs'[n].answers)
                                    THEN "pending-manual-grading"
                                    ELSE "auto-graded"
       /\ (subs[n].status # "graded" /\ subs'[n].status = "graded")
            => /\ subs[n].status \in {"auto-graded", "pending-manual-grading"}
               /\ reply'.code = 0
       /\ subs[n].status # "in-progress" => subs'[n].status # "in-progress"
    ]_vars

\* The number of quizzesTaken entries of the premium taker
TakenCount(coll) ==
  IF "premium" \in DOMAIN coll THEN Len(coll["premium"].quizzesTaken) ELSE 0

\* C21: the taker holds one quizzesTaken entry when the assignment is
\* completed and none before; the entry is appended by the step that commits
\* a final submit, and no other step (a non-final commit, a pass that fails
\* and is retried or given up, a rejected request) appends one.
C21_OneSummaryEntry ==
  /\ [](AssignedIn(takers, "premium") =>
          TakenCount(takers) =
            IF AqIn(takers, "premium").status = "completed" THEN 1 ELSE 0)
  /\ [][TakenCount(takers') - TakenCount(takers) =
          IF \E p \in Procs : /\ proc[p].pc = "tx"
                              /\ proc'[p] # proc[p]
                              /\ proc[p].body.isFinalSubmission
                              /\ reply'.code = 200
          THEN 1 ELSE 0]_vars

\* A final submit committed on a pass that followed an aborted one
C21_Witness ==
  /\ reply.code = 200
  /\ reply.attempt >= 1
  /\ AssignedIn(takers, "premium")
  /\ AqIn(takers, "premium").status = "completed"
  /\ TakenCount(takers) = 1

\* C22: the step that commits a submit for slot k leaves slot k completed
\* with its record and its answers in the submission, and takes away no
\* other slot's completion, record or answers that were committed before it,
\* also when the other request committed while this one was in flight; so
\* after both requests have been answered 200 both slots are completed and
\* the submission holds the records and answers of both.
C22_NoLostUpdate ==
  /\ [](\A k \in Slots :
          DoneSlot(takers, "premium", k) =>
            \E n \in DOMAIN subs :
               /\ QssOf(subs[n], k) # <<>>
               /\ AnswersOfSlot(subs[n], k) # <<>>)
  /\ [][\A p \in Procs :
          ( /\ proc[p].pc = "tx"
            /\ proc'[p] # proc[p]
            /\ reply'.code = 200 )
          => LET k == proc[p].body.questionSetOrder IN
             /\ DoneSlot(takers', "premium", k)
             /\ \E n \in DOMAIN subs' :
                  /\ QssOf(subs'[n], k) # <<>>
                  /\ StoredAnswers(subs'[n], k) = proc[p].body.answers
             /\ \A k2 \in Slots \ {k} :
                  /\ DoneSlot(takers, "premium", k2) =>
                       DoneSlot(takers', "premium", k2)
                  /\ \A n \in DOMAIN subs :
                       /\ QssOf(subs'[n], k2) = QssOf(subs[n], k2)
                       /\ AnswersOfSlot(subs'[n], k2) =
                          AnswersOfSlot(subs[n], k2)]_vars

\* The second of the two concurrent requests has committed on a pass that
\* followed a version conflict with the first: all three slots are completed
\* and one submission holds the three records
C22_Witness ==
  /\ reply.code = 200
  /\ reply.attempt >= 1
  /\ \A k \in 1 .. 3 : DoneSlot(takers, "premium", k)
  /\ \E n \in DOMAIN subs :
       \A k \in 1 .. 3 :
          QssOf(subs[n], k) # <<>> /\ Len(AnswersOfSlot(subs[n], k)) = 1

\* The grade that a request gives to a question: the last one that names it
GradeFor(grades, questionId) ==
  LET Named == {n \in DOMAIN grades : grades[n].questionId = questionId} IN
  IF Named = {}
  THEN <<>>
  ELSE << grades[CHOOSE n \in Named : \A m \in Named : m <= n].pointsAwarded >>

\* new is old as graded by grades
GradedBy(old, new, grades) ==
  /\ new.status = "graded"
  /\ new.score = PointsOf(new.answers)
  /\ Len(new.answers) = Len(old.answers)
  /\ \A n \in DOMAIN old.answers :
       LET a == old.answers[n]
           g == GradeFor(grades, a.questionId) IN
       IF a.questionType = "essay" /\ g # <<>>
       THEN new.answers[n] =
              [a EXCEPT !.pointsAwarded = g[1],
                        !.isCorrect = IF g[1] > 0 THEN "true" ELSE "false"]
       ELSE new.answers[n] = a

\* C23: a grade-essay request on a stored submission sets pointsAwarded of
\* each essay answer that a grade names to the given value and its isCorrect
\* to (pointsAwarded > 0), leaves every other answer as it was, sets the
\* score to the sum of pointsAwarded over all answers and the status to
\* "graded"; it touches no other submission.
C23_ManualGrading ==
  /\ [](\A id \in DOMAIN subs, grades \in GradeInputs :
          LET r == GradeEssayResult(id, grades) IN
          r.code = 200 =>
            /\ GradedBy(subs[id], r.subs[id], grades)
            /\ \A other \in DOMAIN subs \ {id} : r.subs[other] = subs[other])
  /\ [][(reply' = NoReply /\ subs' # subs) =>
          \E id \in DOMAIN subs, grades \in GradeInputs :
             /\ DOMAIN subs' = DOMAIN subs
             /\ GradedBy(subs[id], subs'[id], grades)
             /\ \A other \in DOMAIN subs \ {id} : subs'[other] = subs[other]]_vars

\* A graded submission that holds an essay answer with the points of a
\* grade and a multiple-choice answer that a grade named in vain
C23_Witness ==
  \E id \in DOMAIN subs :
     /\ subs[id].status = "graded"
     /\ \E n, m \in DOMAIN subs[id].answers :
          /\ subs[id].answers[n].questionType = "essay"
          /\ subs[id].answers[n].pointsAwarded = 1
          /\ subs[id].answers[n].isCorrect = "true"
          /\ subs[id].answers[m].questionId = "q1"
          /\ subs[id].answers[m].pointsAwarded > 0
     /\ subs[id].score = PointsOf(subs[id].answers)
     /\ subs[id].score > 1

\* The slot numbers of an assignment's progress records, in stored order
ProgressOrders(aq) ==
  [i \in DOMAIN aq.questionSetProgress |->
     aq.questionSetProgress[i].questionSetOrder]

\* C24: the questionSetProgress of an assignment is empty or holds exactly
\* four records with the slot numbers 1, 2, 3, 4, one each; on an assignment
\* that holds them initializeQuestionSetProgress changes nothing; and no
\* request takes a record away from an initialized assignment or renumbers it.
C24_FourProgressRecords ==
  /\ [](AssignedIn(takers, "premium") =>
          LET aq == AqIn(takers, "premium") IN
          \/ Len(aq.questionSetProgress) = 0
          \/ /\ Len(aq.questionSetProgress) = 4
             /\ {ProgressOrders(aq)[i] : i \in 1 .. 4} = 1 .. 4
             /\ InitializeQuestionSetProgress(aq) = aq)
  /\ [][( /\ AssignedIn(takers, "premium")
          /\ Len(AqIn(takers, "premium").questionSetProgress) = 4 )
        => /\ AssignedIn(takers', "premium")
           /\ ProgressOrders(AqIn(takers', "premium")) =
              ProgressOrders(AqIn(takers, "premium"))]_vars

\* An initialized assignment on which later requests initialized again: two
\* slots were submitted one after the other and both keep their completion
C24_Witness ==
  /\ AssignedIn(takers, "premium")
  /\ Len(AqIn(takers, "premium").questionSetProgress) = 4
  /\ DoneSlot(takers, "premium", 1)
  /\ DoneSlot(takers, "premium", 2)
  /\ \E i \in 1 .. 4 :
       AqIn(takers, "premium").questionSetProgress[i].score > 0

\* C25: the step that answers a submit with a 4xx status changes neither the
\* taker documents nor the submission documents, and the request so answered
\* has persisted no write on any of its passes (the passes that failed
\* before the rejection were rolled back).
C25_RejectedSubmitWritesNothing ==
  /\ [](reply.code \in 400 .. 499 =>
          reply.subWrites = 0 /\ reply.takerWrites = 0)
  /\ [][reply'.code \in 400 .. 499 =>
          takers' = takers /\ subs' = subs]_vars

\* A request rejected because its slot is already completed, on the pass
\* that followed a version conflict: the pass before it had saved inside its
\* transaction and was aborted
C25_Witness ==
  /\ reply.code = 400
  /\ reply.attempt >= 1
  /\ \E k \in Slots : DoneSlot(takers, "premium", k)
  /\ AqIn(takers, "premium").status # "completed"

\* C26: whenever the submit handler has sent a response the transaction of
\* its last pass is closed, committed if the status is 200 and aborted for
\* every other status; and a pass that ends in a retry was aborted too:
\* the step that sends it to the backoff persists nothing.
C26_TransactionClosed ==
  /\ [](reply.code # 0 =>
          reply.txn = IF reply.code = 200 THEN "committed" ELSE "aborted")
  /\ [][\A p \in Procs :
          (proc[p].pc = "tx" /\ proc'[p].pc = "backoff") =>
            takers' = takers /\ subs' = subs]_vars

\* A request answered 200 on its third pass, after two passes that were
\* aborted on a version conflict
C26_Witness ==
  /\ reply.code = 200
  /\ reply.attempt = 2
  /\ reply.txn = "committed"

\* C27: whenever the premium taker has an assignment of the quiz and an
\* in-progress submission of it, the slots that have a QuestionSetSubmission
\* record in the submission are the slots whose progress is "completed" in
\* the assignment.
C27_RecordsMatchProgress ==
  ( /\ AssignedIn(takers, "premium")
    /\ FindInProgress(subs, "premium") # 0 ) =>
  {k \in Slots : QssOf(subs[FindInProgress(subs, "premium")], k) # <<>>} =
  {k \in Slots : DoneSlot(takers, "premium", k)}

\* C28: right after a final submit has committed, the quizzesTaken entry it
\* appended carries the score, the totalPoints and the percentage of the
\* submission document that the commit persisted.
C28_SummaryMatchesSubmission ==
  ( /\ reply.code = 200
    /\ AssignedIn(takers, "premium")
    /\ AqIn(takers, "premium").status = "completed"
    /\ TakenCount(takers) > 0 ) =>
  LET taken == takers["premium"].quizzesTaken
      entry == taken[Len(taken)]
      sub == subs[AqIn(takers, "premium").submissionId] IN
  /\ entry.score = sub.score
  /\ entry.totalPoints = sub.totalPoints
  /\ entry.percentage = sub.percentage

\* C29: whenever the submit handler has sent a response, the database
\* session it started has been ended.
C29_SessionEnded ==
  reply.code # 0 => reply.session = "ended"

\* C30: the score of a Scholar's-Wager session is never negative; a session
\* that is active has a score of at least 5 and below its goal; and a
\* request changes the session only while it is active, with a wager of 5
\* or 10 that the score before the answer covers.
C30_WagerSession ==
  /\ [](game # <<>> =>
          /\ game.currentScore >= 0
          /\ game.status = "active" =>
                /\ game.currentScore >= Half(5)
                /\ game.currentScore < game.goalScore)
  /\ [][(game # <<>> /\ game' # game /\ game' # NewGameSession) =>
          /\ game.status = "active"
          /\ game'.questionsAnswered = game.questionsAnswered + 1
          /\ game'.history[1].wager \in {5, 10}
          /\ game.currentScore >= Half(game'.history[1].wager)
          /\ game'.currentScore =
               game.currentScore + PointsChange(game'.history[1].isCorrect,
                                                game'.history[1].wager)]_vars

\* A session still active on the lowest score that allows a wager, reached
\* by answers that lost their wagers
C30_Witness ==
  /\ game # <<>>
  /\ reply.code = 200
  /\ game.status = "active"
  /\ game.currentScore = Half(5)
  /\ game.questionsAnswered > 0

====
